---- MODULE Spec2Model ----
(***************************************************************************)
(* Model of the two-stage sales pipeline.                                  *)
(*   stage 1  src/src/data_prep.py            (specification SpecPrep)     *)
(*   stage 2  src/src/feature_engineering.py  (specification Spec)         *)
(*                                                                         *)
(* A DataFrame is a column store: a function from column name to the       *)
(* sequence of that column's cells, plus an index (a sequence of labels).  *)
(* Floats are exact rationals extended with NaN, +inf and -inf; binary     *)
(* rounding is not modelled.  pandas semantics are those of pandas 2.x     *)
(* (Series.fillna(inplace=True) on df[col] writes through to df).          *)
(***************************************************************************)
EXTENDS Integers, Sequences, FiniteSets, TLC

(***************************** bounds **************************************)
\* longest table of the free-form family of cleaned files
MaxRows == 2
\* longest run of calendar months in the one-row-per-month family
MaxMonths == 25
\* longest raw table given to stage 1
MaxRawRows == 3

(************************ program constants ********************************)
Window3 == 3
Window6 == 6
Lag == 12
Period == 12

(***************************** floats **************************************)
RECURSIVE Gcd(_, _)
Gcd(a, b) == IF b = 0 THEN a ELSE Gcd(b, a % b)

Abs(x) == IF x < 0 THEN -x ELSE x

NaN == [k |-> "nan", n |-> 0, d |-> 1]
Inf == [k |-> "inf", n |-> 1, d |-> 1]
NegInf == [k |-> "inf", n |-> -1, d |-> 1]

\* the rational n/d (d # 0) in lowest terms with a positive denominator
Num(n, d) ==
    LET g == Gcd(Abs(n), Abs(d))
        s == IF d < 0 THEN -1 ELSE 1
    IN [k |-> "num", n |-> (s * n) \div g, d |-> (s * d) \div g]

F(i) == Num(i, 1)
Zero == F(0)

IsNaN(x) == x.k = "nan"
IsFinite(x) == x.k = "num"

\* float subtraction of finite-or-NaN operands
FSub(a, b) ==
    IF IsFinite(a) /\ IsFinite(b) THEN Num(a.n * b.d - b.n * a.d, a.d * b.d)
    ELSE NaN

\* IEEE division of finite-or-NaN operands: x/0 is +-inf, 0/0 is NaN
FDiv(a, b) ==
    IF ~(IsFinite(a) /\ IsFinite(b)) THEN NaN
    ELSE IF b.n = 0
         THEN IF a.n > 0 THEN Inf ELSE IF a.n < 0 THEN NegInf ELSE NaN
         ELSE Num(a.n * b.d, a.d * b.n)

\* x * 100
FMul100(a) ==
    IF IsFinite(a) THEN Num(100 * a.n, a.d) ELSE a

\* sum of a sequence of floats skipping NaN (pandas sum, skipna, min_count=0)
RECURSIVE SumSkipNa(_)
SumSkipNa(s) ==
    IF s = <<>> THEN Zero
    ELSE LET r == SumSkipNa(Tail(s))
         IN IF IsFinite(Head(s))
            THEN Num(Head(s).n * r.d + r.n * Head(s).d, Head(s).d * r.d)
            ELSE r

(****************************** dates **************************************)
\* a calendar date: m counts months from January of the first year, d is the
\* day of the month; NaT is the null date
NaT == [m |-> -1, d |-> 0]
Date(m, d) == [m |-> m, d |-> d]
IsNaT(x) == x.m < 0

\* DatetimeIndex.to_period('M'): the month of the date, the day dropped
ToPeriodM(x) == IF IsNaT(x) THEN -1 ELSE x.m
\* Period.to_timestamp(how='start'): the first day of the month
ToTimestampStart(p) == IF p < 0 THEN NaT ELSE Date(p, 1)

\* index labels: a date (after set_index) or a position (RangeIndex)
DateLabel(x) == [kind |-> "date", date |-> x, pos |-> 0]
PosLabel(i) == [kind |-> "range", date |-> NaT, pos |-> i]
RangeIndex(n) == [i \in 1..n |-> PosLabel(i - 1)]

(*************************** CSV cells *************************************)
\* a field of a delimited file: empty, a number, a date or other text
EmptyCell == [t |-> "empty", v |-> NaN, x |-> NaT, s |-> ""]
NumCell(f) == [t |-> "num", v |-> f, x |-> NaT, s |-> ""]
DateCell(x) == [t |-> "date", v |-> NaN, x |-> x, s |-> ""]
TextCell(str) == [t |-> "text", v |-> NaN, x |-> NaT, s |-> str]

\* pd.to_numeric(errors='coerce'): numbers parse, everything else is NaN
ToNumeric(c) == IF c.t = "num" THEN c.v ELSE NaN
\* parse_dates: dates parse, an empty field is NaT
ParseDate(c) == IF c.t = "date" THEN c.x ELSE NaT

MapSeq(Op(_), s) == [i \in 1..Len(s) |-> Op(s[i])]

(*************************** column stores *********************************)
NoCols == [c \in {} |-> <<>>]
WithCol(frame, name, vals) ==
    [c \in DOMAIN frame \cup {name} |-> IF c = name THEN vals ELSE frame[c]]
DropCol(frame, name) == [c \in DOMAIN frame \ {name} |-> frame[c]]
HasCols(frame, names) == names \subseteq DOMAIN frame

Max(a, b) == IF a >= b THEN a ELSE b

\* the elements of a finite set of integers in ascending order
RECURSIVE SortedSeq(_)
SortedSeq(S) ==
    IF S = {} THEN <<>>
    ELSE LET lo == CHOOSE x \in S : \A y \in S : x <= y
         IN <<lo>> \o SortedSeq(S \ {lo})

\* the subsequence of s at the positions where keep holds, in order
RECURSIVE SelectIdx(_, _, _)
SelectIdx(s, keep, i) ==
    IF i > Len(s) THEN <<>>
    ELSE (IF keep[i] THEN <<s[i]>> ELSE <<>>) \o SelectIdx(s, keep, i + 1)

(************************** pandas operators *******************************)
\* Series.groupby(keys).sum(): one row per distinct non-null key, keys in
\* ascending order, each the NaN-skipping sum of its rows (dropna=True drops
\* the rows whose key is null)
GroupKeys(periods) == SortedSeq({periods[i] : i \in 1..Len(periods)} \ {-1})
GroupSumFirst(vals, periods, p) ==
    LET hit == SelectIdx(vals, [i \in 1..Len(vals) |-> periods[i] = p], 1)
    IN IF hit = <<>> THEN Zero ELSE Head(hit)
GroupSum(vals, periods, p) ==
    SumSkipNa(SelectIdx(vals, [i \in 1..Len(vals) |-> periods[i] = p], 1))

\* Series.shift(k): row i takes the value k rows earlier, NaN where none
Shift(s, k) == [i \in 1..Len(s) |-> IF i > k THEN s[i - k] ELSE NaN]

\* Series.rolling(window=w, min_periods=minp).mean(): the mean of the
\* non-NaN values among the last w rows up to and including row i, NaN when
\* fewer than minp of them are present
RollingExclusive(s, w, minp) ==
    [i \in 1..Len(s) |->
        LET win == SubSeq(s, Max(1, i - w), i - 1)
            cnt == Cardinality({j \in 1..Len(win) : IsFinite(win[j])})
        IN IF cnt < minp THEN NaN ELSE FDiv(SumSkipNa(win), F(cnt))]
RollingMean(s, w, minp) ==
    [i \in 1..Len(s) |->
        LET win == SubSeq(s, Max(1, i - w + 1), i)
            cnt == Cardinality({j \in 1..Len(win) : IsFinite(win[j])})
        IN IF cnt < minp THEN NaN ELSE FDiv(SumSkipNa(win), F(cnt))]

\* Series.fillna(v)
FillNa(s, v) == [i \in 1..Len(s) |-> IF IsNaN(s[i]) THEN v ELSE s[i]]

\* ((a - b) / b) * 100, elementwise
PctChange(a, b) == [i \in 1..Len(a) |-> FMul100(FDiv(FSub(a[i], b[i]), b[i]))]

\* DataFrame.merge(how='left') on key columns: for every left row in order,
\* one output row per right row with an equal key (right order), or one output
\* row with no partner (0) when no right key is equal.  The pairs are
\* <<left row, right row or 0>>.
RECURSIVE MergePairs(_, _, _)
MergePairs(lkeys, rkeys, i) ==
    IF i > Len(lkeys) THEN <<>>
    ELSE LET m == SelectIdx([j \in 1..Len(rkeys) |-> j],
                            [j \in 1..Len(rkeys) |-> rkeys[j] = lkeys[i]], 1)
         IN (IF m = <<>> THEN << <<i, 0>> >>
             ELSE [j \in 1..Len(m) |-> <<i, m[j]>>])
            \o MergePairs(lkeys, rkeys, i + 1)

\* the merged column store: left columns taken from the left row, right
\* columns from the partner (NaN without one); a right column whose name is
\* also a left column gets the suffixes
MergeLeft(left, right, pairs, lsuf, rsuf) ==
    LET both == DOMAIN left \cap DOMAIN right
        lname(c) == IF c \in both THEN c \o lsuf ELSE c
        rname(c) == IF c \in both THEN c \o rsuf ELSE c
        names == {lname(c) : c \in DOMAIN left} \cup {rname(c) : c \in DOMAIN right}
    IN [nm \in names |->
          IF \E c \in DOMAIN left : lname(c) = nm
          THEN LET c == CHOOSE c \in DOMAIN left : lname(c) = nm
               IN [p \in 1..Len(pairs) |-> left[c][pairs[p][1]]]
          ELSE LET c == CHOOSE c \in DOMAIN right : rname(c) = nm
               IN [p \in 1..Len(pairs) |->
                     IF pairs[p][2] = 0 THEN NaN ELSE right[c][pairs[p][2]]]]

\* Series.std(ddof=0) of the non-NaN values xs: NaN for none, else the square
\* root of (n*sum(x^2) - sum(x)^2) / n^2, kept exact as the radicand
StdPop(xs) ==
    LET fin == SelectIdx(xs, [i \in 1..Len(xs) |-> IsFinite(xs[i])], 1)
        n == Len(fin)
        sq == [i \in 1..n |-> Num(fin[i].n * fin[i].n, fin[i].d * fin[i].d)]
        s1 == SumSkipNa(fin)
        s2 == SumSkipNa(sq)
        var == FDiv(FSub(Num(n * s2.n, s2.d), Num(s1.n * s1.n, s1.d * s1.d)),
                    F(n * n))
    IN IF n = 0 THEN NaN
       ELSE IF var.n = 0 THEN Zero
       ELSE [k |-> "sqrt", n |-> var.n, d |-> var.d]

\* calendar parts of a date (January of the first year is 2020-01)
YearOf(x) == IF IsNaT(x) THEN NaN ELSE F(2020 + (x.m \div 12))
MonthOf(x) == IF IsNaT(x) THEN NaN ELSE F((x.m % 12) + 1)
QuarterOf(x) == IF IsNaT(x) THEN NaN ELSE F(((x.m % 12) \div 3) + 1)
DaysInMonthOf(x) ==
    IF IsNaT(x) THEN NaN
    ELSE LET mo == (x.m % 12) + 1
             yr == 2020 + (x.m \div 12)
             leap == (yr % 4 = 0 /\ yr % 100 # 0) \/ yr % 400 = 0
         IN IF mo = 2 THEN (IF leap THEN F(29) ELSE F(28))
            ELSE IF mo \in {4, 6, 9, 11} THEN F(30) ELSE F(31)

(***************************** state ***************************************)
VARIABLES
    pc,        \* the statement the running script is at
    file,      \* the input file of the script: [readable, cols]
    df,        \* the working DataFrame's columns
    idx,       \* the working DataFrame's index
    sales_ts,  \* the Monthly Series: [index, cols]
    log,       \* what the script has printed, in order
    plots,     \* chart files written
    artifact   \* the output file: <<>> until written, then <<[index, cols]>>

vars == <<pc, file, df, idx, sales_ts, log, plots, artifact>>

NRows == Len(idx)

(************************ stage 1: data_prep.py ****************************)
\* np.where(Sales != 0, (Profit / Sales) * 100, 0); NaN != 0 is true
WhereMargin(profit, sales) ==
    IF sales # Zero THEN FMul100(FDiv(profit, sales)) ELSE Zero

(******************* stage 2: inputs (cleaned files) ***********************)
ExpectedCols ==
    {"Order Date", "Sales", "Profit", "Region", "Category", "Product Name",
     "Discount", "Quantity", "Profit Margin (%)"}
OptionalCols == {"Region", "Category", "Product Name", "Discount", "Quantity"}

FloatCell(f) == IF IsNaN(f) THEN EmptyCell ELSE NumCell(f)

\* the file written by stage 1 for rows [date, sales, profit, region]
CleanedFile(rows, missing) ==
    LET n == Len(rows)
        all == [c \in ExpectedCols |->
                 CASE c = "Order Date" -> [i \in 1..n |-> rows[i].date]
                   [] c = "Sales" -> [i \in 1..n |-> rows[i].sales]
                   [] c = "Profit" -> [i \in 1..n |-> rows[i].profit]
                   [] c = "Region" -> [i \in 1..n |-> TextCell(rows[i].region)]
                   [] c = "Category" -> [i \in 1..n |-> TextCell("Furniture")]
                   [] c = "Product Name" -> [i \in 1..n |-> TextCell("Chair")]
                   [] c = "Discount" -> [i \in 1..n |-> NumCell(F(0))]
                   [] c = "Quantity" -> [i \in 1..n |-> NumCell(F(1))]
                   [] OTHER -> [i \in 1..n |->
                        FloatCell(WhereMargin(ToNumeric(rows[i].profit),
                                              ToNumeric(rows[i].sales)))]]
    IN [readable |-> TRUE,
        cols |-> [c \in ExpectedCols \ missing |-> all[c]]]

\* free-form rows: any order of dates, null dates, null and zero sales
SmallRow ==
    [date : {DateCell(Date(0, 15)), DateCell(Date(1, 1)), EmptyCell},
     sales : {EmptyCell, NumCell(F(0)), NumCell(F(10))},
     profit : {NumCell(F(5))},
     region : {"East", "West"}]
SmallTables == UNION {[1..n -> SmallRow] : n \in 1..MaxRows}

\* one row per calendar month 0..n-1, none for month gap (one of the first
\* three, or -1 for none); flat sales of 10 with zero sales in month z (one of
\* the first two, or -1 for none), or (ramp) sales of 10, 20, 30, ...
LongTable(n, gap, z, ramp) ==
    LET ms == SortedSeq((0..(n - 1)) \ {gap})
    IN [i \in 1..Len(ms) |->
          [date |-> DateCell(Date(ms[i], 15)),
           sales |-> NumCell(IF ramp THEN F(10 * (ms[i] + 1))
                             ELSE IF ms[i] = z THEN F(0) ELSE F(10)),
           profit |-> NumCell(F(5)),
           region |-> "East"]]
LongTables ==
    {LongTable(n, gap, z, FALSE) :
        n \in 2..MaxMonths, gap \in -1..2, z \in -1..1}
    \cup {LongTable(n, -1, -1, TRUE) : n \in 1..MaxMonths}

Unreadable == [readable |-> FALSE, cols |-> NoCols]

Stage2Files ==
    {CleanedFile(t, {}) : t \in SmallTables \cup LongTables}
    \cup {CleanedFile(t, {c}) : t \in [1..1 -> SmallRow], c \in OptionalCols}
    \cup {Unreadable}

Init ==
    /\ pc = "load"
    /\ file \in Stage2Files
    /\ df = NoCols
    /\ idx = <<>>
    /\ sales_ts = [index |-> <<>>, cols |-> NoCols]
    /\ log = <<>>
    /\ plots = {}
    /\ artifact = <<>>

(**************** stage 2: run_week2_feature_engineering *******************)
IsFloat(v) == "k" \in DOMAIN v
\* read_csv type inference: a column of numbers and empty fields is float64
\* (empty is NaN); any other column keeps its fields as objects
InferColumn(cells) ==
    IF \A i \in 1..Len(cells) : cells[i].t \in {"num", "empty"}
    THEN MapSeq(ToNumeric, cells) ELSE cells
\* pd.to_numeric(errors='coerce') of a float or of an object field
ToNumericAny(v) == IF IsFloat(v) THEN v ELSE ToNumeric(v)

\* an arbitrary enumeration of a finite set
RECURSIVE SetToSeq(_)
SetToSeq(S) ==
    IF S = {} THEN <<>>
    ELSE LET x == CHOOSE x \in S : TRUE IN <<x>> \o SetToSeq(S \ {x})

\* lines 33-40: the file is read, Order Date parsed
Load ==
    /\ pc = "load"
    /\ file.readable /\ "Order Date" \in DOMAIN file.cols
    /\ df' = [c \in DOMAIN file.cols |->
                IF c = "Order Date" THEN MapSeq(ParseDate, file.cols[c])
                ELSE InferColumn(file.cols[c])]
    /\ idx' = RangeIndex(Len(file.cols["Order Date"]))
    /\ pc' = "prepare"
    /\ UNCHANGED <<file, sales_ts, log, plots, artifact>>

\* lines 41-43: any failure of the read is reported and the function returns
LoadFails ==
    /\ pc = "load"
    /\ ~(file.readable /\ "Order Date" \in DOMAIN file.cols)
    /\ log' = Append(log, "FATAL ERROR: Failed to read CSV file")
    /\ pc' = "returned"
    /\ UNCHANGED <<file, df, idx, sales_ts, plots, artifact>>

\* line 48: (Profit / Sales) * 100, no guard
Margin(profit, sales) == FMul100(FDiv(profit, sales))

\* lines 46-51: numeric coercion, Profit Margin (%), set_index('Order Date')
Prepare ==
    /\ pc = "prepare"
    /\ LET sales == MapSeq(ToNumericAny, df["Sales"])
           profit == MapSeq(ToNumericAny, df["Profit"])
           margin == [i \in 1..NRows |-> Margin(profit[i], sales[i])]
       IN df' = DropCol(WithCol(WithCol(WithCol(df, "Sales", sales),
                                        "Profit", profit),
                                "Profit Margin (%)", margin),
                        "Order Date")
    /\ idx' = MapSeq(DateLabel, df["Order Date"])
    /\ pc' = "monthly"
    /\ UNCHANGED <<file, sales_ts, log, plots, artifact>>

IndexPeriods == [i \in 1..NRows |-> ToPeriodM(idx[i].date)]

\* lines 57-58: monthly sums keyed by month start
Monthly ==
    /\ pc = "monthly"
    /\ LET keys == GroupKeys(IndexPeriods)
       IN sales_ts' =
            [index |-> MapSeq(ToTimestampStart, keys),
             cols |-> WithCol(NoCols, "Sales",
                        [j \in 1..Len(keys) |->
                            GroupSum(df["Sales"], IndexPeriods, keys[j])])]
    /\ pc' = "dayfeat"
    /\ UNCHANGED <<file, df, idx, log, plots, artifact>>

\* lines 61-64: calendar parts of the index
DayFeatures ==
    /\ pc = "dayfeat"
    /\ LET dates == [i \in 1..NRows |-> idx[i].date]
       IN df' = WithCol(WithCol(WithCol(WithCol(df,
                    "Year", MapSeq(YearOf, dates)),
                    "Month", MapSeq(MonthOf, dates)),
                    "Quarter", MapSeq(QuarterOf, dates)),
                    "Days_in_Month", MapSeq(DaysInMonthOf, dates))
    /\ pc' = "rolling"
    /\ UNCHANGED <<file, idx, sales_ts, log, plots, artifact>>

\* line 67 and line 68
Rolling3(s) == RollingMean(s, Window3, 1)
Rolling6(s) == RollingMean(s, Window6, 1)
\* line 69
SalesLastYear(s) == Shift(s, Lag)

\* lines 67-76: rolling means, lag and year-over-year change
RollingLag ==
    /\ pc = "rolling"
    /\ LET ms == sales_ts.cols["Sales"]
           sly == SalesLastYear(ms)
       IN sales_ts' =
            [sales_ts EXCEPT !.cols =
                WithCol(WithCol(WithCol(WithCol(sales_ts.cols,
                    "Rolling_3M_Sales", Rolling3(ms)),
                    "Rolling_6M_Sales", Rolling6(ms)),
                    "Sales_Last_Year", sly),
                    "YOY_Change", PctChange(ms, sly))]
    /\ df' = WithCol(df, "YOY_Change",
                FillNa(PctChange(df["Sales"], Shift(df["Sales"], Lag)), Zero))
    /\ pc' = "merge"
    /\ UNCHANGED <<file, idx, log, plots, artifact>>

\* line 80: the month start of a row's index date
MonthKeyIsDate(label) == label.date
MonthKey(label) == ToTimestampStart(ToPeriodM(label.date))

MonthlyFeatureCols == {"Rolling_3M_Sales", "Rolling_6M_Sales", "YOY_Change"}

\* lines 79-87: the monthly features are merged onto the daily rows
MergeMonthly ==
    /\ pc = "merge"
    /\ LET left == WithCol(df, "Month_Key", MapSeq(MonthKey, idx))
           right == [c \in MonthlyFeatureCols |-> sales_ts.cols[c]]
           pairs == MergePairs(left["Month_Key"], sales_ts.index, 1)
       IN /\ df' = DropCol(MergeLeft(left, right, pairs, "_daily", "_monthly"),
                           "Month_Key")
          /\ idx' = RangeIndex(Len(pairs))
    /\ pc' = "decompose"
    /\ UNCHANGED <<file, sales_ts, log, plots, artifact>>

\* line 94: seasonal_decompose raises unless it has two complete cycles
DecomposeInput ==
    SelectIdx(sales_ts.cols["Sales"],
              [i \in 1..Len(sales_ts.index) |-> ~IsNaN(sales_ts.cols["Sales"][i])], 1)
CanDecompose == Len(DecomposeInput) >= 2 * Period

\* lines 93-95
DecomposeOk ==
    /\ pc = "decompose"
    /\ CanDecompose
    /\ log' = Append(log, "Sales decomposed")
    /\ pc' = "volatility"
    /\ UNCHANGED <<file, df, idx, sales_ts, plots, artifact>>

\* lines 97-98
DecomposeFails ==
    /\ pc = "decompose"
    /\ ~CanDecompose
    /\ log' = Append(log, "Decomposition failed")
    /\ pc' = "volatility"
    /\ UNCHANGED <<file, df, idx, sales_ts, plots, artifact>>

\* a group key is null when one of its parts is
KeyIsNull(key) ==
    \E j \in 1..Len(key) :
        IF IsFloat(key[j]) THEN IsNaN(key[j]) ELSE key[j].t = "empty"
RowKey(cols, i) == [j \in 1..Len(cols) |-> df[cols[j]][i]]
RowKeys(cols) == [i \in 1..NRows |-> RowKey(cols, i)]
\* the distinct non-null keys of groupby(cols)
GroupsOf(cols) ==
    SetToSeq({RowKey(cols, i) : i \in 1..NRows} \ {k \in {RowKey(cols, i) : i \in 1..NRows} : KeyIsNull(k)})
GroupVals(cols, key, c) ==
    SelectIdx(df[c], [i \in 1..NRows |-> RowKey(cols, i) = key], 1)

\* lines 101-104: per-(Region, Month) population std merged onto the rows
Volatility ==
    /\ pc = "volatility"
    /\ HasCols(df, {"Region", "Month"})
    /\ LET by == <<"Region", "Month">>
           groups == GroupsOf(by)
           right == WithCol(NoCols, "Sales_Volatility_Monthly",
                      [g \in 1..Len(groups) |-> StdPop(GroupVals(by, groups[g], "Sales"))])
           pairs == MergePairs(RowKeys(by), groups, 1)
       IN /\ df' = MergeLeft(df, right, pairs, "_x", "_y")
          /\ idx' = RangeIndex(Len(pairs))
    /\ pc' = "plot1"
    /\ UNCHANGED <<file, sales_ts, log, plots, artifact>>

\* line 101 raises KeyError, which nothing catches
VolatilityKeyError ==
    /\ pc = "volatility"
    /\ ~HasCols(df, {"Region", "Month"})
    /\ pc' = "crashed"
    /\ UNCHANGED <<file, df, idx, sales_ts, log, plots, artifact>>

\* lines 110-121
PlotTrend ==
    /\ pc = "plot1"
    /\ plots' = plots \cup {"monthly_sales_trend.png"}
    /\ log' = Append(log, "Monthly Sales Trend chart saved")
    /\ pc' = "plot2"
    /\ UNCHANGED <<file, df, idx, sales_ts, artifact>>

\* lines 125-139
PlotHierarchy ==
    /\ pc = "plot2"
    /\ HasCols(df, {"Region", "Category"})
    /\ plots' = plots \cup {"hierarchical_product_performance.png"}
    /\ log' = Append(log, "Hierarchical Product Performance chart saved")
    /\ pc' = "product"
    /\ UNCHANGED <<file, df, idx, sales_ts, artifact>>

\* line 125 raises KeyError, which nothing catches
PlotHierarchyKeyError ==
    /\ pc = "plot2"
    /\ ~HasCols(df, {"Region", "Category"})
    /\ pc' = "crashed"
    /\ UNCHANGED <<file, df, idx, sales_ts, log, plots, artifact>>

\* lines 145-155: revenue per (Region, Product Name), product rankings
ProductAnalysis ==
    /\ pc = "product"
    /\ HasCols(df, {"Region", "Product Name"})
    /\ LET by == <<"Region", "Product Name">>
       IN df' = WithCol(df, "Revenue_Per_Product_Region",
                  [i \in 1..NRows |->
                      IF KeyIsNull(RowKey(by, i)) THEN NaN
                      ELSE SumSkipNa(GroupVals(by, RowKey(by, i), "Sales"))])
    /\ log' = Append(log, "Top 10 products")
    /\ pc' = "pivot"
    /\ UNCHANGED <<file, idx, sales_ts, plots, artifact>>

\* line 145 raises KeyError, which nothing catches
ProductKeyError ==
    /\ pc = "product"
    /\ ~HasCols(df, {"Region", "Product Name"})
    /\ pc' = "crashed"
    /\ UNCHANGED <<file, df, idx, sales_ts, log, plots, artifact>>

\* lines 158-165: the pivot tables, the only step whose KeyError is caught
Pivot ==
    /\ pc = "pivot"
    /\ log' = IF HasCols(df, {"Region", "Category", "Sales", "Profit Margin (%)"})
              THEN Append(log, "Pivot tables")
              ELSE Append(log, "Warning: pivot tables require the column")
    /\ pc' = "corr"
    /\ UNCHANGED <<file, df, idx, sales_ts, plots, artifact>>

NumericalFeatures == {"Sales", "Discount", "Quantity", "Profit", "Profit Margin (%)"}

\* lines 168-170
Correlation ==
    /\ pc = "corr"
    /\ HasCols(df, NumericalFeatures)
    /\ log' = Append(log, "Correlation matrix")
    /\ pc' = "save"
    /\ UNCHANGED <<file, df, idx, sales_ts, plots, artifact>>

\* line 169 raises KeyError, which nothing catches
CorrelationKeyError ==
    /\ pc = "corr"
    /\ ~HasCols(df, NumericalFeatures)
    /\ pc' = "crashed"
    /\ UNCHANGED <<file, df, idx, sales_ts, log, plots, artifact>>

\* lines 173-175: to_csv(index=True) writes the index as the leading column
Save ==
    /\ pc = "save"
    /\ artifact' = <<[index |-> idx, cols |-> df]>>
    /\ log' = Append(log, "SUCCESS")
    /\ pc' = "done"
    /\ UNCHANGED <<file, df, idx, sales_ts, plots>>

Next ==
    \/ Load
    \/ LoadFails
    \/ Prepare
    \/ Monthly
    \/ DayFeatures
    \/ RollingLag
    \/ MergeMonthly
    \/ DecomposeOk
    \/ DecomposeFails
    \/ Volatility
    \/ VolatilityKeyError
    \/ PlotTrend
    \/ PlotHierarchy
    \/ PlotHierarchyKeyError
    \/ ProductAnalysis
    \/ ProductKeyError
    \/ Pivot
    \/ Correlation
    \/ CorrelationKeyError
    \/ Save

Spec == Init /\ [][Next]_vars

(************************ claims about stage 2 *****************************)
InputRows == Len(file.cols["Order Date"])
InputDate(i) == ParseDate(file.cols["Order Date"][i])
InputSales(i) == ToNumeric(file.cols["Sales"][i])
Merged == pc \notin {"load", "returned", "prepare", "monthly", "dayfeat", "rolling", "merge"}
HasMonthly == pc \notin {"load", "returned", "prepare", "monthly"}
HasRolling == pc \notin {"load", "returned", "prepare", "monthly", "dayfeat", "rolling"}
Terminated == pc \in {"done", "crashed", "returned"}
MonthlyLen == Len(sales_ts.index)
MonthlyCol(c) == sales_ts.cols[c]

\* C1: the persisted table's leading (index) column is, row for row, the
\* Order Date of the cleaned table's daily rows.
C1_DateIndexPreserved ==
    artifact # <<>> =>
        artifact[1].index = [i \in 1..InputRows |-> DateLabel(InputDate(i))]

\* C2: in the persisted prepared table every row with Sales = 0 has
\* Profit Margin (%) = 0 exactly.
C2_ZeroSalesZeroMargin ==
    artifact # <<>> =>
        \A i \in 1..Len(artifact[1].index) :
            artifact[1].cols["Sales"][i] = Zero
                => artifact[1].cols["Profit Margin (%)"][i] = Zero

\* the Monthly Series row of a date's month, 0 when there is none
MonthlyRowOf(d) ==
    IF \E j \in 1..MonthlyLen : ~IsNaT(d) /\ sales_ts.index[j].m = d.m
    THEN CHOOSE j \in 1..MonthlyLen : sales_ts.index[j].m = d.m
    ELSE 0

\* C3: after the merge-back there is exactly one row per input daily row, in
\* input order, and each row's Rolling_3M_Sales, Rolling_6M_Sales and monthly
\* YOY_Change equal the Monthly Series values of the month containing the
\* row's date, or are all null when that month has no Monthly Series row.
C3_BackfillComplete ==
    Merged =>
        /\ NRows = InputRows
        /\ \A i \in 1..NRows :
            LET j == MonthlyRowOf(InputDate(i))
            IN /\ df["Sales"][i] = InputSales(i)
               /\ df["Rolling_3M_Sales"][i] =
                    (IF j = 0 THEN NaN ELSE MonthlyCol("Rolling_3M_Sales")[j])
               /\ df["Rolling_6M_Sales"][i] =
                    (IF j = 0 THEN NaN ELSE MonthlyCol("Rolling_6M_Sales")[j])
               /\ df["YOY_Change_monthly"][i] =
                    (IF j = 0 THEN NaN ELSE MonthlyCol("YOY_Change")[j])

\* C3's case: the written table has a row dated inside a month (not on its
\* first day) carrying that month's rolling mean, and a row with a null date
\* carrying nulls.
C3_Witness ==
    /\ pc = "done"
    /\ \E i \in 1..NRows :
        /\ ~IsNaT(InputDate(i)) /\ InputDate(i).d # 1
        /\ IsFinite(df["Rolling_3M_Sales"][i])
    /\ \E i \in 1..NRows :
        IsNaT(InputDate(i)) /\ IsNaN(df["Rolling_3M_Sales"][i])

\* the total of the integer sales of the input rows satisfying keep
RECURSIVE InputTotal(_, _)
InputTotal(keep(_), i) ==
    IF i = 0 THEN 0
    ELSE InputTotal(keep, i - 1)
         + (IF keep(i) /\ IsFinite(InputSales(i)) THEN InputSales(i).n ELSE 0)
RECURSIVE MonthlyTotal(_)
MonthlyTotal(j) ==
    IF j = 0 THEN 0 ELSE MonthlyTotal(j - 1) + MonthlyCol("Sales")[j].n

AnyRow(i) == TRUE
DatedRow(i) == ~IsNaT(InputDate(i))

\* C4 as claimed: the Monthly Series' Sales sum to the sum of Sales over all
\* daily rows of the table, rows with a null Order Date included.
C4_SumLosslessAllRows ==
    HasMonthly => MonthlyTotal(MonthlyLen) = InputTotal(AnyRow, InputRows)

\* C4 amended: the Monthly Series' Sales sum to the sum of Sales over the
\* daily rows whose Order Date is not null (null Sales count as 0); the Sales
\* of rows with a null Order Date are in no month.
C4_SumLosslessDatedRows ==
    HasMonthly =>
        /\ \A j \in 1..MonthlyLen : IsFinite(MonthlyCol("Sales")[j]) /\ MonthlyCol("Sales")[j].d = 1
        /\ MonthlyTotal(MonthlyLen) = InputTotal(DatedRow, InputRows)

\* C4's case: the Monthly Series was built from a table that has a null-date
\* row with non-zero Sales beside a dated row with non-zero Sales.
C4_Witness ==
    /\ HasMonthly
    /\ \E i \in 1..InputRows : IsNaT(InputDate(i)) /\ IsFinite(InputSales(i)) /\ InputSales(i).n # 0
    /\ \E i \in 1..InputRows : ~IsNaT(InputDate(i)) /\ IsFinite(InputSales(i)) /\ InputSales(i).n # 0

\* C5: for every Monthly Series row, the monthly YOY_Change is null when
\* Sales_Last_Year is 0 or null, and (Sales - Sales_Last_Year) /
\* Sales_Last_Year * 100 otherwise.
C5_MonthlyYoYNullSafe ==
    HasRolling =>
        \A j \in 1..MonthlyLen :
            LET sly == MonthlyCol("Sales_Last_Year")[j]
                s == MonthlyCol("Sales")[j]
            IN MonthlyCol("YOY_Change")[j] =
                 (IF IsNaN(sly) \/ sly = Zero THEN NaN
                  ELSE Num(100 * (s.n * sly.d - sly.n * s.d), s.d * sly.n))

\* C6: for every Monthly Series row, Sales_Last_Year is the Sales of the row
\* whose month is exactly 12 calendar months earlier, and null when the
\* series has no row for that month.
C6_LastYearIsCalendarLag ==
    HasRolling =>
        \A j \in 1..MonthlyLen :
            LET m == sales_ts.index[j].m - 12
            IN MonthlyCol("Sales_Last_Year")[j] =
                 (IF \E k \in 1..MonthlyLen : sales_ts.index[k].m = m
                  THEN MonthlyCol("Sales")[CHOOSE k \in 1..MonthlyLen : sales_ts.index[k].m = m]
                  ELSE NaN)

\* the sum of the integer monthly sales of rows lo..hi
RECURSIVE MonthlyRangeTotal(_, _)
MonthlyRangeTotal(lo, hi) ==
    IF hi < lo THEN 0 ELSE MonthlyRangeTotal(lo, hi - 1) + MonthlyCol("Sales")[hi].n

\* C7: for every Monthly Series row j, Rolling_3M_Sales (Rolling_6M_Sales) is
\* the mean of Sales over the last 3 (6) rows of the series up to and
\* including j, over the rows available when there are fewer (never null);
\* for sales 10, 20, 30, 40 the 3-month value is 10 at row 1 and 30 at row 4.
C7_RollingMeans ==
    HasRolling =>
        /\ \A j \in 1..MonthlyLen :
            /\ MonthlyCol("Rolling_3M_Sales")[j] =
                 Num(MonthlyRangeTotal(Max(1, j - 2), j), j - Max(1, j - 2) + 1)
            /\ MonthlyCol("Rolling_6M_Sales")[j] =
                 Num(MonthlyRangeTotal(Max(1, j - 5), j), j - Max(1, j - 5) + 1)
        /\ (MonthlyLen >= 4 /\ SubSeq(MonthlyCol("Sales"), 1, 4) = <<F(10), F(20), F(30), F(40)>>) =>
            /\ MonthlyCol("Rolling_3M_Sales")[1] = F(10)
            /\ MonthlyCol("Rolling_3M_Sales")[4] = F(30)

\* C7's case: the rolling means of a series longer than both windows, whose
\* first four months are 10, 20, 30, 40, have been computed.
C7_Witness ==
    /\ HasRolling
    /\ MonthlyLen > Window6
    /\ SubSeq(MonthlyCol("Sales"), 1, 4) = <<F(10), F(20), F(30), F(40)>>
    /\ MonthlyCol("Rolling_3M_Sales")[4] = F(30)
    /\ MonthlyCol("Rolling_6M_Sales")[2] = F(15)

DecompositionFailed == \E i \in 1..Len(log) : log[i] = "Decomposition failed"

\* C9: in every finished run whose input was loaded and whose decomposition
\* failed, the failure was reported and the later steps all ran: both charts
\* were written, the insights printed and the final artifact persisted.
C9_DecompositionContained ==
    (Terminated /\ DecompositionFailed) =>
        /\ pc = "done"
        /\ artifact # <<>>
        /\ Cardinality(plots) = 2
        /\ \E i \in 1..Len(log) : log[i] = "Correlation matrix"

\* C10: a run whose cleaned table lacks one of the expected columns Region,
\* Category, Product Name, Discount or Quantity does not abort: when it has
\* finished it has reported the failure and persisted the final artifact.
C10_MissingColumnRecovered ==
    (Terminated /\ file.readable /\ ~HasCols(file.cols, OptionalCols)) =>
        /\ pc = "done"
        /\ artifact # <<>>

(************************ stage 1: data_prep.py ****************************)
FloatLess(a, b) == a.n * b.d < b.n * a.d

\* the finite floats of xs in ascending order
RECURSIVE SortFloats(_)
SortFloats(xs) ==
    IF xs = <<>> THEN <<>>
    ELSE LET i == CHOOSE i \in 1..Len(xs) : \A j \in 1..Len(xs) : ~FloatLess(xs[j], xs[i])
         IN <<xs[i]>> \o SortFloats(SubSeq(xs, 1, i - 1) \o SubSeq(xs, i + 1, Len(xs)))

NonNaN(col) == SelectIdx(col, [i \in 1..Len(col) |-> ~IsNaN(col[i])], 1)

\* Series.median(): NaN skipped; the middle value, or the mean of the two
\* middle values; NaN when nothing is present
MedianLower(col) ==
    LET s == SortFloats(NonNaN(col))
        n == Len(s)
    IN IF n = 0 THEN NaN ELSE s[(n + 1) \div 2]
Median(col) ==
    LET s == SortFloats(NonNaN(col))
        n == Len(s)
    IN IF n = 0 THEN NaN
       ELSE IF n % 2 = 1 THEN s[(n + 1) \div 2]
       ELSE LET a == s[n \div 2]
                b == s[(n \div 2) + 1]
            IN Num(a.n * b.d + b.n * a.d, 2 * a.d * b.d)

\* Series.mode()[0] of an object column: a most frequent non-empty field (the
\* order pandas breaks ties in is not modelled)
ModeFirst(col) ==
    LET present == {col[i] : i \in 1..Len(col)} \ {EmptyCell}
        count(v) == Cardinality({i \in 1..Len(col) : col[i] = v})
    IN CHOOSE v \in present : \A w \in present : count(w) <= count(v)

IsNumericCol(col) == \A i \in 1..Len(col) : IsFloat(col[i])
IsNullValue(v) == IF IsFloat(v) THEN IsNaN(v) ELSE v.t = "empty"
HasNull(col) == \E i \in 1..Len(col) : IsNullValue(col[i])

\* lines 24-30 for one column
ImputeColumn(col) ==
    IF ~HasNull(col) THEN col
    ELSE IF IsNumericCol(col) THEN FillNa(col, Median(col))
    ELSE [i \in 1..Len(col) |-> IF IsNullValue(col[i]) THEN ModeFirst(col) ELSE col[i]]

\* pd.to_datetime(errors='coerce'): dates parse, anything else is NaT
ToDatetime(v) == IF ~IsFloat(v) /\ v.t = "date" THEN v.x ELSE NaT

\* raw rows; the first record carries an unparseable Order Date
RawRow ==
    [sales : {EmptyCell, NumCell(F(0)), NumCell(F(4))},
     profit : {EmptyCell, NumCell(F(3))},
     region : {EmptyCell, TextCell("East")}]
RawTables == UNION {[1..n -> RawRow] : n \in 1..MaxRawRows}
RawFile(rows) ==
    LET n == Len(rows)
    IN [readable |-> TRUE,
        cols |-> [c \in {"Order Date", "Ship Date", "Sales", "Profit", "Region"} |->
            CASE c = "Order Date" ->
                    [i \in 1..n |-> IF i = 1 THEN TextCell("bad") ELSE DateCell(Date(0, 15))]
              [] c = "Ship Date" -> [i \in 1..n |-> DateCell(Date(0, 20))]
              [] c = "Sales" -> [i \in 1..n |-> rows[i].sales]
              [] c = "Profit" -> [i \in 1..n |-> rows[i].profit]
              [] OTHER -> [i \in 1..n |-> rows[i].region]]]

InitPrep ==
    /\ pc = "p_load"
    /\ file \in {RawFile(t) : t \in RawTables} \cup {Unreadable}
    /\ df = NoCols
    /\ idx = <<>>
    /\ sales_ts = [index |-> <<>>, cols |-> NoCols]
    /\ log = <<>>
    /\ plots = {}
    /\ artifact = <<>>

\* lines 9-13, 66
LoadData ==
    /\ pc = "p_load"
    /\ file.readable
    /\ df' = [c \in DOMAIN file.cols |-> InferColumn(file.cols[c])]
    /\ idx' = RangeIndex(Len(file.cols["Sales"]))
    /\ log' = Append(log, "Data loaded successfully")
    /\ pc' = "p_missing"
    /\ UNCHANGED <<file, sales_ts, plots, artifact>>

\* lines 14-16, 67-68: the file is not found and the script exits
LoadDataNotFound ==
    /\ pc = "p_load"
    /\ ~file.readable
    /\ log' = Append(log, "Error: File not found")
    /\ pc' = "p_exited"
    /\ UNCHANGED <<file, df, idx, sales_ts, plots, artifact>>

\* lines 18-33, 71
HandleMissingValues ==
    /\ pc = "p_missing"
    /\ df' = [c \in DOMAIN df |-> ImputeColumn(df[c])]
    /\ log' = Append(log, "Missing values handled successfully")
    /\ pc' = "p_preprocess"
    /\ UNCHANGED <<file, idx, sales_ts, plots, artifact>>

\* lines 35-54, 74
PreprocessData ==
    /\ pc = "p_preprocess"
    /\ df' = WithCol(WithCol(WithCol(df,
                "Order Date", MapSeq(ToDatetime, df["Order Date"])),
                "Ship Date", MapSeq(ToDatetime, df["Ship Date"])),
                "Profit Margin (%)",
                    [i \in 1..NRows |-> WhereMargin(df["Profit"][i], df["Sales"][i])])
    /\ log' = Append(log, "Calculated field added")
    /\ pc' = "p_save"
    /\ UNCHANGED <<file, idx, sales_ts, plots, artifact>>

\* lines 77-78: to_csv(index=False)
SaveCleaned ==
    /\ pc = "p_save"
    /\ artifact' = <<[index |-> <<>>, cols |-> df]>>
    /\ log' = Append(log, "SUCCESS")
    /\ pc' = "p_done"
    /\ UNCHANGED <<file, df, idx, sales_ts, plots>>

NextPrep ==
    \/ LoadData
    \/ LoadDataNotFound
    \/ HandleMissingValues
    \/ PreprocessData
    \/ SaveCleaned

SpecPrep == InitPrep /\ [][NextPrep]_vars

(************************ claims about stage 1 *****************************)
Imputed == pc \in {"p_preprocess", "p_save", "p_done"}
RawNumericCols ==
    {c \in DOMAIN file.cols :
        \A i \in 1..Len(file.cols[c]) : file.cols[c][i].t \in {"num", "empty"}}
RawMissing(c, i) == file.cols[c][i].t = "empty"
RawHasMissing(c) == \E i \in 1..Len(file.cols[c]) : RawMissing(c, i)
RawHasPresent(c) == \E i \in 1..Len(file.cols[c]) : ~RawMissing(c, i)
\* the present raw values of column c are integers; Rank k of them is the
\* value with fewer than k values below it and at least k at or below it
RawBelow(c, v) ==
    Cardinality({i \in 1..Len(file.cols[c]) : ~RawMissing(c, i) /\ file.cols[c][i].v.n < v})
RawAtOrBelow(c, v) ==
    Cardinality({i \in 1..Len(file.cols[c]) : ~RawMissing(c, i) /\ file.cols[c][i].v.n <= v})
RawRank(c, k) ==
    CHOOSE v \in {file.cols[c][i].v.n : i \in {j \in 1..Len(file.cols[c]) : ~RawMissing(c, j)}} :
        RawBelow(c, v) < k /\ k <= RawAtOrBelow(c, v)
RawCount(c) == Cardinality({i \in 1..Len(file.cols[c]) : ~RawMissing(c, i)})
\* the median of the present raw values: the mean of the two middle ranks
RawMedian(c) ==
    Num(RawRank(c, (RawCount(c) + 1) \div 2) + RawRank(c, (RawCount(c) \div 2) + 1), 2)

ImputedWithMedian(c) ==
    \A i \in 1..Len(file.cols[c]) :
        /\ ~IsNaN(df[c][i])
        /\ ~RawMissing(c, i) => df[c][i] = file.cols[c][i].v
        /\ (RawMissing(c, i) /\ RawHasPresent(c)) => df[c][i] = RawMedian(c)

\* C8 as claimed: after handle_missing_values every numeric column that had
\* missing values, a column with every entry missing included, has none, its
\* imputed entries equal the median of the originally present values and its
\* present entries are unchanged.
C8_EveryNumericColumnImputed ==
    Imputed =>
        \A c \in RawNumericCols : RawHasMissing(c) => ImputedWithMedian(c)

\* C8 amended: the same for every numeric column that had missing values and
\* at least one present value; a column with every entry missing is left with
\* every entry missing.
C8_NumericColumnImputed ==
    Imputed =>
        \A c \in RawNumericCols :
            /\ (RawHasMissing(c) /\ RawHasPresent(c)) => ImputedWithMedian(c)
            /\ ~RawHasPresent(c) => \A i \in 1..Len(file.cols[c]) : IsNaN(df[c][i])

\* C8's case: Sales had a missing entry beside the present values 0 and 4
\* (an even count) and the entry was imputed with their median 2, while
\* another numeric column had every entry missing.
C8_Witness ==
    /\ Imputed
    /\ RawHasMissing("Sales") /\ RawCount("Sales") = 2
    /\ RawRank("Sales", 1) = 0 /\ RawRank("Sales", 2) = 4
    /\ \E i \in 1..NRows : RawMissing("Sales", i) /\ df["Sales"][i] = F(2)
    /\ ~RawHasPresent("Profit")

\* stage 1's half of C2: every row of the intermediate table with Sales = 0
\* has Profit Margin (%) = 0.
C2_Stage1ZeroSalesZeroMargin ==
    artifact # <<>> =>
        \A i \in 1..NRows :
            artifact[1].cols["Sales"][i] = Zero
                => artifact[1].cols["Profit Margin (%)"][i] = Zero

====
